---- MODULE Spec2Model ----
(***************************************************************************)
(* SignAware AI: the document status machine, PII masking of a document    *)
(* and the conversational turn, as the request handlers of                 *)
(* app/services and app/routers execute them on one uvicorn event loop     *)
(* (run.py starts a single process): a handler runs without interruption   *)
(* from one `await` to the next, so an action is the code between two      *)
(* awaits, and handlers of different requests interleave at the awaits.    *)
(* Every request has its own SQLAlchemy session; a commit writes the       *)
(* columns the handler assigned and leaves the other columns of the row as  *)
(* they are in the store.                                                  *)
(***************************************************************************)
EXTENDS Integers, Sequences, FiniteSets, Bags, TLC

VARIABLES users, docs, allocated, messages, req, clock, dbNow, calls, last

vars == <<users, docs, allocated, messages, req, clock, dbNow, calls, last>>

----------------------------------------------------------------------------
(* Bounds of the model *)

MaxReqs == 2      \* handlers in flight at once
MaxCalls == 2     \* analysis-provider calls per document
MaxMsgs == 4      \* chat messages ever stored
MaxChunks == 2    \* fragments of one provider stream

(* the readings of the application's clock (datetime.utcnow) *)
Times == {0, 1}

Users == {"u1", "u2"}
DocIds == {"d1"}
Sessions == {"s1", "s2"}

(* Optional values: None is Python's None / SQL NULL *)
None == <<>>
Some(v) == <<v>>
IsSome(o) == o # None
Get(o) == o[1]

----------------------------------------------------------------------------
(* app/models.py *)

PENDING == "pending"
PROCESSING == "processing"
COMPLETED == "completed"
FAILED == "failed"
DocumentStatus == {PENDING, PROCESSING, COMPLETED, FAILED}

USER == "user"
ASSISTANT == "assistant"
SYSTEM == "system"

(* Texts the handlers compute on are sequences of characters *)
RawContent == <<"J", "o", "e">>
DocTitle == "ToS"
DocType == "other"

(* A row of the documents table as create_document inserts it *)
NewDocument(u) ==
  [ userId |-> u,
    title |-> DocTitle,
    type |-> DocType,
    content |-> RawContent,
    status |-> PENDING,
    analysis |-> None,
    maskedContent |-> None,
    processingStartedAt |-> None,
    processingCompletedAt |-> None,
    errorMessage |-> None ]

(* FindDocument with the userId filter forgotten *)
FindDocument_AnyOwner(d, u) ==
  IF d \in DOMAIN docs THEN Some(docs[d]) ELSE None

(* db.query(Document).filter(id == document_id, userId == user_id).first() *)
FindDocument(d, u) ==
  IF d \in DOMAIN docs /\ docs[d].userId = u THEN Some(docs[d]) ELSE None

----------------------------------------------------------------------------
(* The analysis record: AnalysisResult / DocumentAnalysisResult *)

AnalysisFields ==
  { "summary", "hidden_clauses", "risk_assessment", "loopholes", "red_flags",
    "risk_score", "confidence_rating", "key_concerns" }

StoredAnalysisFields == AnalysisFields \cup {"analyzed_at"}

RiskMin == 1
RiskMax == 5
ConfidenceMin == 0
ConfidenceMax == 100

(* Field(..., ge=1, le=5) and Field(..., ge=0, le=100) *)
RangeOK(r) ==
  /\ r.risk_score >= RiskMin /\ r.risk_score <= RiskMax
  /\ r.confidence_rating >= ConfidenceMin /\ r.confidence_rating <= ConfidenceMax

(* What the language model may answer: two records in range, at the ends of
   the ranges, records just outside a range, and an answer lacking a field *)
GoodA ==
  [ summary |-> "sumA", hidden_clauses |-> <<"h1">>, risk_assessment |-> "low",
    loopholes |-> <<>>, red_flags |-> <<"f1", "f2">>, risk_score |-> 1,
    confidence_rating |-> 100, key_concerns |-> <<>> ]
GoodB ==
  [ summary |-> "sumB", hidden_clauses |-> <<>>, risk_assessment |-> "high",
    loopholes |-> <<"l1">>, red_flags |-> <<>>, risk_score |-> 5,
    confidence_rating |-> 0, key_concerns |-> <<"k1">> ]
BadRisk == [GoodA EXCEPT !.risk_score = 6]
BadConfidence == [GoodB EXCEPT !.confidence_rating = 0 - 1]
Malformed == [summary |-> "sumA", risk_assessment |-> "low"]

ModelAnswers == {GoodA, GoodB, BadRisk, BadConfidence, Malformed}

(* chain = prompt | llm | output_parser: the call either raises (network,
   provider error) or the parser validates the answer against AnalysisResult
   and raises on a missing field or a value out of range *)
ProviderError == "provider error"
ChainOutcomes ==
  {[raised |-> TRUE, error |-> ProviderError]} \cup
  {[raised |-> FALSE, answer |-> a] : a \in ModelAnswers}

ParseError(a) ==
  IF DOMAIN a # AnalysisFields THEN "field required"
  ELSE IF ~(a.risk_score >= RiskMin /\ a.risk_score <= RiskMax)
       THEN "risk_score out of range"
  ELSE "confidence_rating out of range"

(* The result of `await chain.ainvoke(...)`: a validated record or an
   exception with its message *)
ChainResult(o) ==
  IF o.raised THEN [ok |-> FALSE, error |-> o.error]
  ELSE IF DOMAIN o.answer = AnalysisFields /\ RangeOK(o.answer)
       THEN [ok |-> TRUE, result |-> o.answer]
       ELSE [ok |-> FALSE, error |-> ParseError(o.answer)]

(* datetime.isoformat() and its parse back by pydantic *)
IsoFormat(t) == "2025-01-01T00:00:0" \o ToString(t)
FromIso(s) == CHOOSE t \in Times : IsoFormat(t) = s

(* DocumentAnalysisResult(summary=..., ..., analyzed_at=datetime.utcnow()) *)
AnalysisData(result, now) ==
  [ summary |-> result.summary,
    hidden_clauses |-> result.hidden_clauses,
    risk_assessment |-> result.risk_assessment,
    loopholes |-> result.loopholes,
    red_flags |-> result.red_flags,
    risk_score |-> result.risk_score,
    confidence_rating |-> result.confidence_rating,
    key_concerns |-> result.key_concerns,
    analyzed_at |-> now ]

(* analysis_data.model_dump(mode='json'): the JSONB value stored *)
ModelDumpJson(a) == [a EXCEPT !.analyzed_at = IsoFormat(a.analyzed_at)]

(* DocumentAnalysisResult built from the stored document.analysis *)
LoadAnalysis(j) == [j EXCEPT !.analyzed_at = FromIso(j.analyzed_at)]

(* AnalyzeDocumentResponse *)
AnalyzeDocumentResponse(d, status, analysis, started, completed, error) ==
  [ document_id |-> d,
    status |-> status,
    analysis |-> analysis,
    processing_started_at |-> started,
    processing_completed_at |-> completed,
    error_message |-> error ]

(* AlreadyAnalyzed with the short-circuit taken out *)
AlreadyAnalyzed_Never(doc) == FALSE

(* `document.status == COMPLETED and document.analysis` *)
AlreadyAnalyzed(doc) == doc.status = COMPLETED /\ IsSome(doc.analysis)

(* `document.maskedContent and document.maskedContent.get('masked_content')` *)
HasMaskedContent(doc) ==
  IsSome(doc.maskedContent) /\ Get(doc.maskedContent).masked_content # <<>>

(* ContentForAnalysis with the masked content never looked at *)
ContentForAnalysis_Raw(doc) == doc.content

(* lines 69-83: content_for_analysis *)
ContentForAnalysis(doc) ==
  IF HasMaskedContent(doc) THEN Get(doc.maskedContent).masked_content
  ELSE doc.content

----------------------------------------------------------------------------
(* Text helpers: Python's str operations on sequences of characters *)

IsSpace(c) == c \in {" ", "\n", "\t"}

RECURSIVE LStrip(_)
LStrip(s) == IF s # <<>> /\ IsSpace(Head(s)) THEN LStrip(Tail(s)) ELSE s

RECURSIVE RStrip(_)
RStrip(s) ==
  IF s # <<>> /\ IsSpace(s[Len(s)]) THEN RStrip(SubSeq(s, 1, Len(s) - 1)) ELSE s

(* str.strip() *)
Strip(s) == RStrip(LStrip(s))

(* str.startswith(p) *)
StartsWith(s, p) == Len(s) >= Len(p) /\ SubSeq(s, 1, Len(p)) = p

(* str.find(p): the first index (from 0) at which p occurs, -1 if none *)
Find(s, p) ==
  LET hits == {i \in 0..(Len(s) - Len(p)) : SubSeq(s, i + 1, i + Len(p)) = p}
  IN IF hits = {} THEN 0 - 1 ELSE CHOOSE i \in hits : \A j \in hits : i <= j

(* `p in s` *)
Contains(s, p) == Find(s, p) # 0 - 1

(* str.split('\n') *)
RECURSIVE SplitLines(_)
SplitLines(s) ==
  LET i == Find(s, <<"\n">>)
  IN IF i = 0 - 1 THEN <<s>>
     ELSE <<SubSeq(s, 1, i)>> \o SplitLines(SubSeq(s, i + 2, Len(s)))

(* ' '.join(lines) *)
RECURSIVE JoinSpace(_)
JoinSpace(lines) ==
  IF lines = <<>> THEN <<>>
  ELSE IF Len(lines) = 1 THEN lines[1]
  ELSE lines[1] \o <<" ">> \o JoinSpace(Tail(lines))

----------------------------------------------------------------------------
(* app/services/pii_masking.py: mask_pii's treatment of the model's text *)

ThinkOpen == <<"<", "t", "h", "i", "n", "k", ">">>
ThinkClose == <<"<", "/", "t", "h", "i", "n", "k", ">">>
ThinkCloseLen == 8

ExplanatoryPrefixes ==
  { <<"H", "e", "r", "e">>, <<"T", "h", "e">>, <<"I", "'", "v", "e">>,
    <<"T", "h", "i", "s">> }

(* the text after the thinking block, when both delimiters are present *)
SkipThinking(raw) ==
  IF Contains(raw, ThinkOpen) /\ Contains(raw, ThinkClose)
  THEN Strip(SubSeq(raw, Find(raw, ThinkClose) + ThinkCloseLen + 1, Len(raw)))
  ELSE raw

(* KeepLine that drops the empty lines only *)
KeepLine_NonEmpty(line) == line # <<>>

(* `line and not line.startswith(("Here", "The", "I've", "This"))` *)
KeepLine(line) ==
  line # <<>> /\ ~(\E p \in ExplanatoryPrefixes : StartsWith(line, p))

RECURSIVE KeptLines(_)
KeptLines(lines) ==
  IF lines = <<>> THEN <<>>
  ELSE LET line == Strip(Head(lines))
       IN (IF KeepLine(line) THEN <<line>> ELSE <<>>) \o KeptLines(Tail(lines))

MaskPii(raw_response) ==
  LET rest == SkipThinking(raw_response)
      masked_content == KeptLines(SplitLines(rest))
  IN IF masked_content # <<>> THEN JoinSpace(masked_content) ELSE Strip(rest)

(* The texts the local model may return to mask_pii: up to MaxTokens pieces,
   each a delimiter, an explanatory word, a letter, a newline or a space *)
MaxTokens == 4

Tokens ==
  { ThinkOpen, ThinkClose, <<"H", "e", "r", "e">>, <<"T", "h", "e">>,
    <<"a">>, <<"\n">>, <<" ">> }

RECURSIVE Texts(_)
Texts(n) ==
  IF n = 0 THEN {<<>>}
  ELSE LET shorter == Texts(n - 1)
       IN shorter \cup {t \o k : t \in shorter, k \in Tokens}

RawResponses == Texts(MaxTokens)

(* What the local model may answer to a masking prompt in the system runs *)
MaskAnswers ==
  { <<"[", "N", "]">>,
    <<"H", "e", "r", "e", "\n", "[", "N", "]", " ">>,
    <<>> }

MaskOutcomes ==
  {[raised |-> TRUE, error |-> ProviderError]} \cup
  {[raised |-> FALSE, response |-> a] : a \in MaskAnswers}

(* MaskedData with masked_length taken from the input text *)
MaskedData_InputLength(content, masked_content, now) ==
  [ original_content |-> content,
    masked_content |-> masked_content,
    original_length |-> Len(content),
    masked_length |-> Len(content),
    masked_at |-> IsoFormat(now) ]

(* the maskedContent JSON mask_document_content stores *)
MaskedData(content, masked_content, now) ==
  [ original_content |-> content,
    masked_content |-> masked_content,
    original_length |-> Len(content),
    masked_length |-> Len(masked_content),
    masked_at |-> IsoFormat(now) ]

----------------------------------------------------------------------------
(* The handlers' state *)

(* A handler suspended at an await: which one (pc), its arguments and its
   local variables. The suspended handlers form a bag: two requests with the
   same arguments are two handlers. *)
Handler ==
  [ pc |-> "", doc |-> "", user |-> "", session |-> "", via |-> "",
    text |-> <<>>, message |-> "", acc |-> "", sent |-> <<>>, taken |-> 0,
    turn |-> 0, emitted |-> <<>> ]

Suspended(h) == req (+) SetToBag({h})
Resumed(h) == req (-) SetToBag({h})
Continue(h, g) == (req (-) SetToBag({h})) (+) SetToBag({g})

(* What the last step did, as its caller sees it: the step (a handler's name
   for its first part, "<name>_return" and the like for its resumption), the
   arguments, what the awaited provider handed back (input: an answer, a
   chunk, and at the end of a stream all its chunks), the HTTP status
   of the response (0 while the handler is suspended at an await) and the
   body *)
Resumption(op, d, u, input, http, body) ==
  [ op |-> op, doc |-> d, user |-> u, input |-> input, http |-> http,
    body |-> body ]

Event(op, d, u, http, body) == Resumption(op, d, u, None, http, body)

Init ==
  /\ users = Users
  /\ docs = <<>>
  /\ allocated = {}
  /\ messages = <<>>
  /\ req = EmptyBag
  /\ clock = 0
  /\ dbNow = 1
  /\ calls = [d \in DocIds |-> 0]
  /\ last = Event("start", "", "", 0, [detail |-> ""])

(* time passes on the application's clock (datetime.utcnow) *)
Tick ==
  /\ clock + 1 \in Times
  /\ clock' = clock + 1
  /\ last' = Event("tick", "", "", 0, [detail |-> ""])
  /\ UNCHANGED <<users, docs, allocated, messages, req, dbNow, calls>>

----------------------------------------------------------------------------
(* app/routers/document_analysis.py *)

NotFoundDetail == [detail |-> "not found"]
ServerErrorDetail == [detail |-> "failed"]

(* POST /documents/: the store generates a fresh id; the insert of a row
   whose userId is not in the users table breaks the foreign key, which the
   handler's `except Exception` answers with 500 *)
CreateDocument(d, u) ==
  /\ d \notin allocated
  /\ IF u \in users
     THEN /\ allocated' = allocated \cup {d}
          /\ docs' = (d :> NewDocument(u)) @@ docs
          /\ last' = Event("create_document", d, u, 200, NewDocument(u))
     ELSE /\ last' = Event("create_document", d, u, 500, ServerErrorDetail)
          /\ UNCHANGED <<docs, allocated>>
  /\ UNCHANGED <<users, messages, req, clock, dbNow, calls>>

(* GET /documents/{id} *)
GetDocument(d, u) ==
  /\ last' = IF FindDocument(d, u) = None
             THEN Event("get_document", d, u, 404, NotFoundDetail)
             ELSE Event("get_document", d, u, 200, Get(FindDocument(d, u)))
  /\ UNCHANGED <<users, docs, allocated, messages, req, clock, dbNow, calls>>

(* a store whose chat messages outlive their document *)
WithoutDocument_Kept(msgs, d) == msgs

(* the rows left once a document is gone: ON DELETE CASCADE of
   chat_messages.documentId *)
WithoutDocument(msgs, d) == SelectSeq(msgs, LAMBDA m : m.documentId # d)

(* DELETE /documents/{id} *)
DeleteDocument(d, u) ==
  /\ IF FindDocument(d, u) = None
     THEN /\ last' = Event("delete_document", d, u, 404, NotFoundDetail)
          /\ UNCHANGED <<docs, messages>>
     ELSE /\ docs' = [x \in DOMAIN docs \ {d} |-> docs[x]]
          /\ messages' = WithoutDocument(messages, d)
          /\ last' = Event("delete_document", d, u, 200, [detail |-> "deleted"])
  /\ UNCHANGED <<users, allocated, req, clock, dbNow, calls>>

(* the rows left once a user is gone: the user's documents and chat
   messages, and the chat messages of those documents (cascade="all,
   delete-orphan" on User.documents, User.chat_messages and
   Document.chat_messages; ON DELETE CASCADE on the foreign keys) *)
DocumentsWithoutUser(ds, u) ==
  [x \in {y \in DOMAIN ds : ds[y].userId # u} |-> ds[x]]

MessagesWithoutUser(msgs, ds, u) ==
  SelectSeq(msgs, LAMBDA m :
    m.userId # u /\ (m.documentId \in DOMAIN ds => ds[m.documentId].userId # u))

(* DELETE /users/{id} *)
DeleteUser(u) ==
  /\ IF u \notin users
     THEN /\ last' = Event("delete_user", "", u, 404, NotFoundDetail)
          /\ UNCHANGED <<users, docs, messages>>
     ELSE /\ users' = users \ {u}
          /\ docs' = DocumentsWithoutUser(docs, u)
          /\ messages' = MessagesWithoutUser(messages, docs, u)
          /\ last' = Event("delete_user", "", u, 200, [detail |-> "deleted"])
  /\ UNCHANGED <<allocated, req, clock, dbNow, calls>>

----------------------------------------------------------------------------
(* app/services/document_analysis.py *)

(* MarkProcessing that leaves the error of the earlier attempt in place *)
MarkProcessing_KeepError(doc, now) ==
  [doc EXCEPT !.status = PROCESSING,
              !.processingStartedAt = Some(now)]

(* lines 64-67: status, start stamp and error cleared, in one commit *)
MarkProcessing(doc, now) ==
  [doc EXCEPT !.status = PROCESSING,
              !.processingStartedAt = Some(now),
              !.errorMessage = None]

(* StoreCompleted with the status assignment forgotten *)
StoreCompleted_NoStatus(doc, analysis_data, now) ==
  [doc EXCEPT !.analysis = Some(ModelDumpJson(analysis_data)),
              !.processingCompletedAt = Some(now)]

(* StoreCompleted with the completion stamp left to a later commit *)
StoreCompleted_NoStamp(doc, analysis_data, now) ==
  [doc EXCEPT !.analysis = Some(ModelDumpJson(analysis_data)),
              !.status = COMPLETED]

(* lines 142-146: analysis, status and completion stamp, in one commit *)
StoreCompleted(doc, analysis_data, now) ==
  [doc EXCEPT !.analysis = Some(ModelDumpJson(analysis_data)),
              !.status = COMPLETED,
              !.processingCompletedAt = Some(now)]

(* StoreFailed with the errorMessage assignment forgotten *)
StoreFailed_NoMessage(doc, error, now) ==
  [doc EXCEPT !.status = FAILED,
              !.processingCompletedAt = Some(now)]

(* an except branch that records the error and leaves the status as it is *)
StoreFailed_KeepsStatus(doc, error, now) ==
  [doc EXCEPT !.errorMessage = Some(error),
              !.processingCompletedAt = Some(now)]

(* lines 159-162: the except branch *)
StoreFailed(doc, error, now) ==
  [doc EXCEPT !.status = FAILED,
              !.errorMessage = Some(error),
              !.processingCompletedAt = Some(now)]

(* lines 53-60: the response of the short-circuit *)
StoredResponse(d, document) ==
  AnalyzeDocumentResponse(d, document.status,
    Some(LoadAnalysis(Get(document.analysis))),
    document.processingStartedAt, document.processingCompletedAt, None)

(* AnalyzeDocument with the status transition made a conditional update,
   "set PROCESSING where status is not PROCESSING": a request that finds the
   document PROCESSING is turned away *)
AnalyzeDocument_Serialized(d, u) ==
  /\ LET found == FindDocument(d, u) IN
     IF found = None
     THEN /\ last' = Event("analyze", d, u, 404, NotFoundDetail)
          /\ UNCHANGED <<docs, req, calls>>
     ELSE IF AlreadyAnalyzed(Get(found))
     THEN /\ last' = Event("analyze", d, u, 200, StoredResponse(d, Get(found)))
          /\ UNCHANGED <<docs, req, calls>>
     ELSE IF Get(found).status = PROCESSING
     THEN /\ last' = Event("analyze", d, u, 409, [detail |-> "in progress"])
          /\ UNCHANGED <<docs, req, calls>>
     ELSE /\ BagCardinality(req) < MaxReqs
          /\ calls[d] < MaxCalls
          /\ docs' = [docs EXCEPT ![d] = MarkProcessing(@, clock)]
          /\ req' = Suspended([Handler EXCEPT !.pc = "analyze", !.doc = d,
                        !.user = u, !.text = ContentForAnalysis(docs'[d])])
          /\ calls' = [calls EXCEPT ![d] = @ + 1]
          /\ last' = Event("analyze", d, u, 0,
                       [content |-> ContentForAnalysis(docs'[d])])
  /\ UNCHANGED <<users, allocated, messages, clock, dbNow>>

(* analyze_document up to `await chain.ainvoke(...)`, with the router's
   mapping of ValueError to 404 *)
AnalyzeDocument(d, u) ==
  /\ LET found == FindDocument(d, u) IN
     IF found = None
     THEN /\ last' = Event("analyze", d, u, 404, NotFoundDetail)
          /\ UNCHANGED <<docs, req, calls>>
     ELSE IF AlreadyAnalyzed(Get(found))
     THEN /\ last' = Event("analyze", d, u, 200, StoredResponse(d, Get(found)))
          /\ UNCHANGED <<docs, req, calls>>
     ELSE /\ BagCardinality(req) < MaxReqs
          /\ calls[d] < MaxCalls
          /\ docs' = [docs EXCEPT ![d] = MarkProcessing(@, clock)]
          /\ req' = Suspended([Handler EXCEPT !.pc = "analyze", !.doc = d,
                        !.user = u, !.text = ContentForAnalysis(docs'[d])])
          /\ calls' = [calls EXCEPT ![d] = @ + 1]
          /\ last' = Event("analyze", d, u, 0,
                       [content |-> ContentForAnalysis(docs'[d])])
  /\ UNCHANGED <<users, allocated, messages, clock, dbNow>>

(* analyze_document from the return of the chain to its own return; a commit
   on a row that is gone raises, and raises again out of the except branch:
   the router's 500 *)
AnalyzeReturn(h, o) ==
  /\ h.pc = "analyze"
  /\ LET d == h.doc
         u == h.user
         res == ChainResult(o)
     IN IF d \notin DOMAIN docs
        THEN /\ last' = Resumption("analyze_return", d, u, o, 500, ServerErrorDetail)
             /\ UNCHANGED docs
        ELSE IF res.ok
        THEN LET analysis_data == AnalysisData(res.result, clock)
                 stored == StoreCompleted(docs[d], analysis_data, clock)
             IN /\ docs' = [docs EXCEPT ![d] = stored]
                /\ last' = Resumption("analyze_return", d, u, o, 200,
                             AnalyzeDocumentResponse(d, stored.status,
                               Some(analysis_data), stored.processingStartedAt,
                               stored.processingCompletedAt, None))
        ELSE LET stored == StoreFailed(docs[d], res.error, clock)
             IN /\ docs' = [docs EXCEPT ![d] = stored]
                /\ last' = Resumption("analyze_return", d, u, o, 200,
                             AnalyzeDocumentResponse(d, stored.status, None,
                               stored.processingStartedAt,
                               stored.processingCompletedAt, Some(res.error)))
  /\ req' = Resumed(h)
  /\ UNCHANGED <<users, allocated, messages, clock, dbNow, calls>>

(* `db.commit()` raising: the failed transaction is rolled back and what the
   handler had assigned for it is discarded *)
StoreError == "store error"

(* analyze_document when the commit of line 67 raises: the commit is inside
   the try, so the except branch of lines 157-170 runs, with no provider call
   made. If the store accepts the commit of line 162 (recovered), the
   document is FAILED and the handler returns normally; if that commit raises
   as well, the exception leaves the handler and the router answers 500. *)
AnalyzeDocumentStoreFailure(d, u, recovered) ==
  /\ FindDocument(d, u) # None
  /\ ~AlreadyAnalyzed(docs[d])
  /\ IF recovered
     THEN LET stored == StoreFailed(docs[d], StoreError, clock)
          IN /\ docs' = [docs EXCEPT ![d] = stored]
             /\ last' = Resumption("analyze_store_failure", d, u, recovered, 200,
                          AnalyzeDocumentResponse(d, stored.status, None,
                            stored.processingStartedAt,
                            stored.processingCompletedAt, Some(StoreError)))
     ELSE /\ last' = Resumption("analyze_store_failure", d, u, recovered, 500,
                       ServerErrorDetail)
          /\ UNCHANGED docs
  /\ UNCHANGED <<users, allocated, messages, req, clock, dbNow, calls>>

(* analyze_document when the provider has answered and the next commit
   raises: that of line 146 after a valid answer, where the except branch then
   runs as above, or that of line 162 itself after a failure *)
AnalyzeReturnStoreFailure(h, o, recovered) ==
  /\ h.pc = "analyze"
  /\ h.doc \in DOMAIN docs
  /\ LET d == h.doc
         u == h.user
     IN IF ChainResult(o).ok /\ recovered
        THEN LET stored == StoreFailed(docs[d], StoreError, clock)
             IN /\ docs' = [docs EXCEPT ![d] = stored]
                /\ last' = Resumption("analyze_return_store_failure", d, u,
                             [outcome |-> o, recovered |-> recovered], 200,
                             AnalyzeDocumentResponse(d, stored.status, None,
                               stored.processingStartedAt,
                               stored.processingCompletedAt, Some(StoreError)))
        ELSE /\ last' = Resumption("analyze_return_store_failure", d, u,
                          [outcome |-> o, recovered |-> recovered], 500,
                          ServerErrorDetail)
             /\ UNCHANGED docs
  /\ req' = Resumed(h)
  /\ UNCHANGED <<users, allocated, messages, clock, dbNow, calls>>

(* GET /documents/{id}/analysis: get_analysis_by_document_id *)
GetAnalysis(d, u) ==
  /\ LET found == FindDocument(d, u) IN
     last' = IF found = None
             THEN Event("get_analysis", d, u, 404, NotFoundDetail)
             ELSE Event("get_analysis", d, u, 200,
                    AnalyzeDocumentResponse(d, Get(found).status,
                      IF IsSome(Get(found).analysis)
                      THEN Some(LoadAnalysis(Get(Get(found).analysis)))
                      ELSE None,
                      Get(found).processingStartedAt,
                      Get(found).processingCompletedAt,
                      Get(found).errorMessage))
  /\ UNCHANGED <<users, docs, allocated, messages, req, clock, dbNow, calls>>

----------------------------------------------------------------------------
(* app/services/pii_masking.py and app/routers/pii_masking.py *)

(* a masking that also puts the document back to PENDING *)
StoreMasked_Pending(doc, masked_data) ==
  [doc EXCEPT !.maskedContent = Some(masked_data), !.status = PENDING]

(* lines 117-118: `document.maskedContent = masked_data`, committed *)
StoreMasked(doc, masked_data) ==
  [doc EXCEPT !.maskedContent = Some(masked_data)]

(* mask_document_content up to `await self.mask_pii(document.content)` *)
MaskDocument(d, u) ==
  /\ LET found == FindDocument(d, u) IN
     IF found = None
     THEN /\ last' = Event("mask_document", d, u, 404, NotFoundDetail)
          /\ UNCHANGED req
     ELSE /\ BagCardinality(req) < MaxReqs
          /\ req' = Suspended([Handler EXCEPT !.pc = "mask", !.doc = d,
                        !.user = u, !.text = Get(found).content])
          /\ last' = Event("mask_document", d, u, 0,
                       [content |-> Get(found).content])
  /\ UNCHANGED <<users, docs, allocated, messages, clock, dbNow, calls>>

(* from the answer of the local model to the handler's return: any
   exception becomes the router's 500 *)
MaskReturn(h, o) ==
  /\ h.pc = "mask"
  /\ LET d == h.doc
         u == h.user
         content == h.text
     IN IF o.raised \/ d \notin DOMAIN docs
        THEN /\ last' = Resumption("mask_return", d, u, o, 500, ServerErrorDetail)
             /\ UNCHANGED docs
        ELSE LET masked_content == MaskPii(o.response)
                 masked_data == MaskedData(content, masked_content, clock)
             IN /\ docs' = [docs EXCEPT ![d] = StoreMasked(@, masked_data)]
                /\ last' = Resumption("mask_return", d, u, o, 200,
                             [ document_id |-> d,
                               masked_content |-> masked_content,
                               original_length |-> Len(content),
                               masked_length |-> Len(masked_content),
                               masked_at |-> masked_data.masked_at ])
  /\ req' = Resumed(h)
  /\ UNCHANGED <<users, allocated, messages, clock, dbNow, calls>>

(* The texts a caller may send to POST /pii/mask *)
TextInputs == { <<>>, <<"J", "o", "e">>, <<"a", "\n", "b">> }

(* PIIMaskingResponse(masked_content, original_length, masked_length) *)
PIIMaskingResponse(text, masked_content) ==
  [ masked_content |-> masked_content,
    original_length |-> Len(text),
    masked_length |-> Len(masked_content) ]

(* POST /pii/mask up to `await pii_service.mask_pii(request.text)` *)
MaskText(t) ==
  /\ BagCardinality(req) < MaxReqs
  /\ req' = Suspended([Handler EXCEPT !.pc = "mask_text", !.text = t])
  /\ last' = Event("mask_text", "", "", 0, [text |-> t])
  /\ UNCHANGED <<users, docs, allocated, messages, clock, dbNow, calls>>

(* from the answer of the local model to the response; any exception becomes
   500 *)
MaskTextReturn(h, o) ==
  /\ h.pc = "mask_text"
  /\ last' = IF o.raised
             THEN Resumption("mask_text_return", "", "", o, 500, ServerErrorDetail)
             ELSE Resumption("mask_text_return", "", "", o, 200,
                    PIIMaskingResponse(h.text, MaskPii(o.response)))
  /\ req' = Resumed(h)
  /\ UNCHANGED <<users, docs, allocated, messages, clock, dbNow, calls>>

(* GET /pii/masked/{id}: both ValueErrors become 404 *)
GetMaskedContent(d, u) ==
  /\ LET found == FindDocument(d, u) IN
     last' = IF found = None
             THEN Event("get_masked", d, u, 404, NotFoundDetail)
             ELSE IF Get(found).maskedContent = None
             THEN Event("get_masked", d, u, 404, [detail |-> "not masked"])
             ELSE Event("get_masked", d, u, 200,
                    [ document_id |-> d,
                      masked_content |-> Get(Get(found).maskedContent).masked_content,
                      original_length |-> Get(Get(found).maskedContent).original_length,
                      masked_length |-> Get(Get(found).maskedContent).masked_length,
                      masked_at |-> Get(Get(found).maskedContent).masked_at ])
  /\ UNCHANGED <<users, docs, allocated, messages, req, clock, dbNow, calls>>

----------------------------------------------------------------------------
(* app/services/chat_service.py and app/routers/chat.py *)

UserQuestion == "q"
ChunkContents == {"", "a"}
StreamErrors == {"boom"}
ErrorPrefix == "Sorry, I encountered an error: "
NotFoundChunk == "Error: Document not found or access denied."

RECURSIVE Concat(_)
Concat(ss) == IF ss = <<>> THEN "" ELSE Head(ss) \o Concat(Tail(ss))

(* _save_message: the row inserted; the store gives it its id and createdAt
   (server_default now(): the start of the session's transaction) *)
ChatMessage(id, content, role, s, d, u, createdAt) ==
  [ id |-> id, content |-> content, role |-> role, sessionId |-> s,
    documentId |-> d, userId |-> u, createdAt |-> createdAt ]

(* _get_document_context: the text is the sequence of its lines *)
DenialText == "No document found or access denied."

NotAnalyzedText(title) ==
  "Document '" \o title \o
  "' has not been analyzed yet. Please analyze the document first to get detailed insights."

(* `analysis.get(field, default)` *)
Field(analysis, field, default) ==
  IF field \in DOMAIN analysis THEN analysis[field] ELSE default

(* a JSON number read back as a Python float, in an f-string *)
FormatFloat(x) == ToString(x) \o ".0"

(* BulletLines with the entries of a list run together on one line *)
BulletLines_OneLine(list) == <<Concat([i \in DOMAIN list |-> "- " \o list[i]])>>

(* chr(10).join(f'- {entry}' for entry in list): one line per entry, and the
   empty string, an empty line, for an empty list *)
BulletLines(list) ==
  IF list = <<>> THEN <<"">> ELSE [i \in DOMAIN list |-> "- " \o list[i]]

ContextBlock(document) ==
  LET analysis == Get(document.analysis) IN
  << "",
     "Document Information:",
     "- Title: " \o document.title,
     "- Type: " \o document.type,
     "- Status: " \o document.status,
     "",
     "Document Analysis Summary:",
     "- Summary: " \o Field(analysis, "summary", "Not available"),
     "- Risk Score: " \o
        (IF "risk_score" \in DOMAIN analysis
         THEN FormatFloat(analysis.risk_score) ELSE "Not available") \o "/5",
     "- Confidence Rating: " \o
        (IF "confidence_rating" \in DOMAIN analysis
         THEN FormatFloat(analysis.confidence_rating) ELSE "Not available") \o "%",
     "- Risk Assessment: " \o Field(analysis, "risk_assessment", "Not available"),
     "",
     "Hidden Clauses:" >> \o
  BulletLines(Field(analysis, "hidden_clauses", <<>>)) \o
  << "", "Loopholes:" >> \o
  BulletLines(Field(analysis, "loopholes", <<>>)) \o
  << "", "Red Flags:" >> \o
  BulletLines(Field(analysis, "red_flags", <<>>)) \o
  << "", "Key Concerns:" >> \o
  BulletLines(Field(analysis, "key_concerns", <<>>)) \o
  << "",
     "Analysis Date: " \o Field(analysis, "analyzed_at", "Unknown"),
     "" >>

(* `not document.analysis`: NULL or an empty JSON object *)
NotAnalyzed(document) ==
  document.analysis = None \/ DOMAIN Get(document.analysis) = {}

DocumentContext(d, u) ==
  LET found == FindDocument(d, u) IN
  IF found = None THEN <<DenialText>>
  ELSE IF NotAnalyzed(Get(found)) THEN <<NotAnalyzedText(Get(found).title)>>
  ELSE ContextBlock(Get(found))

(* a call of _get_document_context, as chat_stream makes it at line 134 *)
GetDocumentContext(d, u) ==
  /\ last' = Event("document_context", d, u, 0,
               [context |-> DocumentContext(d, u)])
  /\ UNCHANGED <<users, docs, allocated, messages, req, clock, dbNow, calls>>

(* the rows of one (session, document, user) triple, as the filter of
   _get_conversation_history and get_chat_history selects them *)
SessionRows(msgs, s, d, u) ==
  SelectSeq(msgs, LAMBDA m :
    m.sessionId = s /\ m.documentId = d /\ m.userId = u)

(* ORDER BY createdAt with the rows in the order the store holds them left
   as they are *)
OrderByCreatedAt_Unordered(rows) == rows

(* .order_by(ChatMessage.createdAt): the rows by ascending createdAt *)
RECURSIVE OrderByCreatedAt(_)
OrderByCreatedAt(rows) ==
  IF rows = <<>> THEN <<>>
  ELSE LET least == CHOOSE i \in DOMAIN rows :
                      \A j \in DOMAIN rows :
                        \/ rows[i].createdAt < rows[j].createdAt
                        \/ (rows[i].createdAt = rows[j].createdAt /\ i <= j)
           rest == [k \in 1..(Len(rows) - 1) |->
                      IF k < least THEN rows[k] ELSE rows[k + 1]]
       IN <<rows[least]>> \o OrderByCreatedAt(rest)

(* _get_conversation_history: role and content of each row *)
ConversationHistory(msgs, s, d, u) ==
  LET rows == OrderByCreatedAt(SessionRows(msgs, s, d, u))
  IN [i \in DOMAIN rows |-> [role |-> rows[i].role, content |-> rows[i].content]]

(* lines 138-148: the system prompt, with the document context in it *)
SystemPrompt(document_context) ==
  <<"You are a helpful AI assistant">> \o document_context
    \o <<"Use this analysis to answer questions about the document.">>

(* the message list with the whole history, the turn's own row included *)
LlmMessages_WholeHistory(msgs, message, s, d, u) ==
  <<[role |-> SYSTEM, content |-> SystemPrompt(DocumentContext(d, u))]>>
    \o ConversationHistory(msgs, s, d, u)
    \o <<[role |-> USER, content |-> message]>>

(* lines 150-160: SystemMessage, then conversation_history[:-1] with user
   rows as HumanMessage and assistant rows as AIMessage (a row of another
   role is skipped), then HumanMessage(message) *)
LlmMessages(msgs, message, s, d, u) ==
  LET conversation_history == ConversationHistory(msgs, s, d, u)
      earlier == SubSeq(conversation_history, 1, Len(conversation_history) - 1)
  IN <<[role |-> SYSTEM, content |-> SystemPrompt(DocumentContext(d, u))]>>
       \o SelectSeq(earlier, LAMBDA m : m.role \in {USER, ASSISTANT})
       \o <<[role |-> USER, content |-> message]>>

(* get_chat_history: a ChatMessageResponse for each row *)
ChatHistory(msgs, s, d, u) == OrderByCreatedAt(SessionRows(msgs, s, d, u))

(* GET /chat/history/{session_id}: ChatHistoryResponse *)
GetChatHistory(s, d, u) ==
  /\ LET history == ChatHistory(messages, s, d, u)
     IN last' = Event("chat_history", d, u, 200,
                  [ session_id |-> s, document_id |-> d, messages |-> history,
                    total_messages |-> Len(history) ])
  /\ UNCHANGED <<users, docs, allocated, messages, req, clock, dbNow, calls>>

(* get_chat_sessions: the distinct sessionIds of the (document, user) rows *)
SessionIds(msgs, d, u) ==
  { msgs[i].sessionId : i \in {j \in DOMAIN msgs :
                                 msgs[j].documentId = d /\ msgs[j].userId = u} }

(* the entry of one session: first row, last row and count by createdAt. The
   contents stored in the system runs are shorter than the 100 characters at
   which first_message is cut. *)
SessionInfo(msgs, s, d, u) ==
  LET rows == OrderByCreatedAt(SessionRows(msgs, s, d, u))
  IN [ session_id |-> s,
       document_id |-> d,
       first_message |-> rows[1].content,
       message_count |-> Len(rows),
       created_at |-> rows[1].createdAt,
       updated_at |-> rows[Len(rows)].createdAt ]

(* sorted(session_info, key=updated_at, reverse=True) *)
RECURSIVE SortedByUpdatedAt(_)
SortedByUpdatedAt(infos) ==
  IF infos = {} THEN <<>>
  ELSE LET latest == CHOOSE x \in infos :
                       \A y \in infos : y.updated_at <= x.updated_at
       IN <<latest>> \o SortedByUpdatedAt(infos \ {latest})

ChatSessions(msgs, d, u) ==
  SortedByUpdatedAt({SessionInfo(msgs, s, d, u) : s \in SessionIds(msgs, d, u)})

(* GET /chat/sessions/{document_id} *)
GetChatSessions(d, u) ==
  /\ LET sessions == ChatSessions(messages, d, u)
     IN last' = Event("chat_sessions", d, u, 200,
                  [ document_id |-> d, sessions |-> sessions,
                    total_sessions |-> Len(sessions) ])
  /\ UNCHANGED <<users, docs, allocated, messages, req, clock, dbNow, calls>>

(* a delete that selects the rows by session and document alone *)
WithoutSession_AnyUser(msgs, s, d, u) ==
  SelectSeq(msgs, LAMBDA m : ~(m.sessionId = s /\ m.documentId = d))

(* the rows left by the delete of lines 158-162 *)
WithoutSession(msgs, s, d, u) ==
  SelectSeq(msgs, LAMBDA m :
    ~(m.sessionId = s /\ m.documentId = d /\ m.userId = u))

(* DELETE /chat/sessions/{session_id} *)
DeleteChatSession(s, d, u) ==
  /\ messages' = WithoutSession(messages, s, d, u)
  /\ last' = Event("delete_session", d, u, 200,
               [ session_id |-> s, document_id |-> d,
                 deleted_messages |-> Len(messages) - Len(messages') ])
  /\ UNCHANGED <<users, docs, allocated, req, clock, dbNow, calls>>

(* POST /chat/message: `complete_response += chunk` over the non-empty chunks,
   then ChatResponse(response, session_id, message_id); message_id is a
   required UUID, so None fails validation and the handler's
   `except Exception` answers 500 *)
ChatMessageReply(s, chunks, message_id) ==
  IF message_id = None
  THEN [http |-> 500, body |-> ServerErrorDetail]
  ELSE [http |-> 200,
        body |-> [ response |-> Concat(chunks), session_id |-> s,
                   message_id |-> Get(message_id) ]]

(* POST /chat/stream: one "message" event per non-empty chunk, then the "end"
   event carrying the message id or null *)
ChatStreamReply(s, chunks, message_id) ==
  [http |-> 200,
   body |-> [events |-> chunks, session_id |-> s, message_id |-> message_id]]

RouterReply(via, s, chunks, message_id) ==
  IF via = "message" THEN ChatMessageReply(s, chunks, message_id)
  ELSE ChatStreamReply(s, chunks, message_id)

(* an exception leaving chat_stream: 500 from /chat/message, a broken event
   stream from /chat/stream *)
RouterFailure(via, chunks) ==
  IF via = "message" THEN [http |-> 500, body |-> ServerErrorDetail]
  ELSE [http |-> 200, body |-> [events |-> chunks, aborted |-> TRUE]]

ChatOp(via) == IF via = "message" THEN "chat_message" ELSE "chat_stream"

(* chat_stream up to the first `async for` step of llm.astream: the access
   check, the user's message saved, context and history read *)
ChatTurn(d, u, s, via) ==
  /\ IF FindDocument(d, u) = None
     THEN /\ LET reply == RouterReply(via, s, <<NotFoundChunk>>, None)
             IN last' = Event(ChatOp(via), d, u, reply.http, reply.body)
          /\ UNCHANGED <<messages, req, dbNow>>
     ELSE /\ BagCardinality(req) < MaxReqs
          /\ dbNow + 1 <= MaxMsgs
          /\ messages' = Append(messages,
               ChatMessage(dbNow, UserQuestion, USER, s, d, u, dbNow))
          /\ dbNow' = dbNow + 2
          /\ req' = Suspended([Handler EXCEPT !.pc = "chat", !.doc = d,
                        !.user = u, !.session = s, !.via = via,
                        !.message = UserQuestion, !.turn = dbNow])
          /\ last' = Event(ChatOp(via), d, u, 0,
                       [ turn |-> dbNow, session_id |-> s,
                         history |-> ConversationHistory(messages', s, d, u),
                         messages |-> LlmMessages(messages', UserQuestion, s, d, u) ])
  /\ UNCHANGED <<users, docs, allocated, clock, calls>>

(* one chunk of the provider's stream: `if chunk.content:` accumulate and
   yield it; the routers forward the non-empty chunks *)
ChatChunk(h, c) ==
  /\ h.pc = "chat"
  /\ h.taken < MaxChunks
  /\ req' = Continue(h, [h EXCEPT !.taken = @ + 1,
                                  !.emitted = Append(@, c),
                                  !.acc = IF c # "" THEN @ \o c ELSE @,
                                  !.sent = IF c # "" THEN Append(@, c) ELSE @])
  /\ last' = Resumption("chat_chunk", h.doc, h.user, c, 0,
               [turn |-> h.turn, via |-> h.via])
  /\ UNCHANGED <<users, docs, allocated, messages, clock, dbNow, calls>>

(* the stream is exhausted: lines 169-180. An insert for a document that is
   gone fails in the try and again in the except branch, and leaves
   chat_stream *)
ChatStreamEnd(h) ==
  /\ h.pc = "chat"
  /\ IF h.acc # ""
     THEN IF h.doc \in DOMAIN docs
          THEN /\ messages' = Append(messages,
                    ChatMessage(h.turn + 1, h.acc, ASSISTANT, h.session, h.doc,
                                h.user, h.turn + 1))
               /\ LET reply == RouterReply(h.via, h.session, h.sent, Some(h.turn + 1))
                  IN last' = Resumption("chat_done", h.doc, h.user, h.emitted, reply.http,
                               [turn |-> h.turn, via |-> h.via, reply |-> reply.body])
          ELSE /\ UNCHANGED messages
               /\ LET reply == RouterFailure(h.via, h.sent)
                  IN last' = Resumption("chat_done", h.doc, h.user, h.emitted, reply.http,
                               [turn |-> h.turn, via |-> h.via, reply |-> reply.body])
     ELSE /\ UNCHANGED messages
          /\ LET reply == RouterReply(h.via, h.session, h.sent, None)
             IN last' = Resumption("chat_done", h.doc, h.user, h.emitted, reply.http,
                          [turn |-> h.turn, via |-> h.via, reply |-> reply.body])
  /\ req' = Resumed(h)
  /\ UNCHANGED <<users, docs, allocated, clock, dbNow, calls>>

(* the stream raises: lines 182-193 *)
ChatStreamRaise(h, e) ==
  /\ h.pc = "chat"
  /\ LET error_message == ErrorPrefix \o e IN
     IF h.doc \in DOMAIN docs
     THEN /\ messages' = Append(messages,
               ChatMessage(h.turn + 1, error_message, ASSISTANT, h.session,
                           h.doc, h.user, h.turn + 1))
          /\ LET reply == RouterReply(h.via, h.session,
                            Append(h.sent, error_message), Some(h.turn + 1))
             IN last' = Resumption("chat_raised", h.doc, h.user, e, reply.http,
                          [turn |-> h.turn, via |-> h.via, reply |-> reply.body])
     ELSE /\ UNCHANGED messages
          /\ LET reply == RouterFailure(h.via, h.sent)
             IN last' = Resumption("chat_raised", h.doc, h.user, e, reply.http,
                          [turn |-> h.turn, via |-> h.via, reply |-> reply.body])
  /\ req' = Resumed(h)
  /\ UNCHANGED <<users, docs, allocated, clock, dbNow, calls>>

----------------------------------------------------------------------------
(* The document machine: documents, analysis and masking *)

Next ==
  \/ Tick
  \/ \E d \in DocIds, u \in Users :
       \/ CreateDocument(d, u)
       \/ GetDocument(d, u)
       \/ DeleteDocument(d, u)
       \/ GetAnalysis(d, u)
       \/ GetMaskedContent(d, u)
       \/ AnalyzeDocument(d, u)
       \/ MaskDocument(d, u)
  \/ \E h \in BagToSet(req), o \in ChainOutcomes : AnalyzeReturn(h, o)
  \/ \E h \in BagToSet(req), o \in MaskOutcomes : MaskReturn(h, o)

Spec == Init /\ [][Next]_vars

(* The document machine on a store whose commits may raise *)
NextStoreFailure ==
  \/ Tick
  \/ \E d \in DocIds, u \in Users :
       \/ CreateDocument(d, u)
       \/ AnalyzeDocument(d, u)
       \/ GetAnalysis(d, u)
       \/ \E recovered \in BOOLEAN : AnalyzeDocumentStoreFailure(d, u, recovered)
  \/ \E h \in BagToSet(req), o \in ChainOutcomes :
       \/ AnalyzeReturn(h, o)
       \/ \E recovered \in BOOLEAN : AnalyzeReturnStoreFailure(h, o, recovered)

SpecStoreFailure == Init /\ [][NextStoreFailure]_vars

(* mask_pii alone, on each text the local model may return: lines 67-87 *)
InitMaskPii ==
  /\ users = Users
  /\ docs = <<>>
  /\ allocated = {}
  /\ messages = <<>>
  /\ req = EmptyBag
  /\ clock = 0
  /\ dbNow = 1
  /\ calls = [d \in DocIds |-> 0]
  /\ \E raw \in RawResponses :
       last = Resumption("mask_pii_response", "", "", raw, 0, [detail |-> ""])

MaskPiiReturn ==
  /\ last.op = "mask_pii_response"
  /\ last' = Resumption("mask_pii", "", "", last.input, 0,
               [masked_content |-> MaskPii(last.input)])
  /\ UNCHANGED <<users, docs, allocated, messages, req, clock, dbNow, calls>>

NextMaskPii == MaskPiiReturn

SpecMaskPii == InitMaskPii /\ [][NextMaskPii]_vars

(* Analysis with a provider that answers: each call that waits at line 119
   is resumed, with an answer or an exception *)
NextAnalysis ==
  \/ Tick
  \/ \E d \in DocIds, u \in Users :
       \/ CreateDocument(d, u)
       \/ DeleteDocument(d, u)
       \/ AnalyzeDocument(d, u)
       \/ GetAnalysis(d, u)
  \/ \E h \in BagToSet(req), o \in ChainOutcomes : AnalyzeReturn(h, o)

SpecAnalysisLive ==
  /\ Init
  /\ [][NextAnalysis]_vars
  /\ WF_vars(\E h \in BagToSet(req), o \in ChainOutcomes : AnalyzeReturn(h, o))

(* The conversation: documents come and go while chat turns run *)
NextChat ==
  \/ \E d \in DocIds, u \in Users :
       \/ CreateDocument(d, u)
       \/ DeleteDocument(d, u)
  \/ \E d \in DocIds, u \in Users, s \in Sessions, via \in {"message", "stream"} :
       ChatTurn(d, u, s, via)
  \/ \E d \in DocIds, u \in Users, s \in Sessions : GetChatHistory(s, d, u)
  \/ \E h \in BagToSet(req) :
       \/ \E c \in ChunkContents : ChatChunk(h, c)
       \/ ChatStreamEnd(h)
       \/ \E e \in StreamErrors : ChatStreamRaise(h, e)

SpecChat == Init /\ [][NextChat]_vars

(* Masking: of a text, and of documents that come and go *)
NextMask ==
  \/ Tick
  \/ \E d \in DocIds, u \in Users :
       \/ CreateDocument(d, u)
       \/ DeleteDocument(d, u)
       \/ MaskDocument(d, u)
       \/ GetMaskedContent(d, u)
  \/ \E t \in TextInputs : MaskText(t)
  \/ \E h \in BagToSet(req), o \in MaskOutcomes :
       \/ MaskReturn(h, o)
       \/ MaskTextReturn(h, o)

SpecMask == Init /\ [][NextMask]_vars

(* The grounding context: _get_document_context on the documents the status
   machine produces *)
NextContext ==
  \/ Tick
  \/ \E d \in DocIds, u \in Users :
       \/ CreateDocument(d, u)
       \/ DeleteDocument(d, u)
       \/ AnalyzeDocument(d, u)
       \/ GetDocumentContext(d, u)
  \/ \E h \in BagToSet(req), o \in ChainOutcomes : AnalyzeReturn(h, o)

SpecContext == Init /\ [][NextContext]_vars

(* Ownership: users and documents are deleted while analyses and chat turns
   for them are in flight. What the provider answers and which session a turn
   belongs to do not bear on which rows exist: one valid answer, one failure,
   one session and non-empty fragments are taken. *)
CascadeOutcomes ==
  { [raised |-> TRUE, error |-> ProviderError],
    [raised |-> FALSE, answer |-> GoodA] }

CascadeSessions == {"s1"}

CascadeChunks == {"a"}

NextCascade ==
  \/ \E u \in Users : DeleteUser(u)
  \/ \E d \in DocIds, u \in Users :
       \/ CreateDocument(d, u)
       \/ DeleteDocument(d, u)
       \/ AnalyzeDocument(d, u)
  \/ \E d \in DocIds, u \in Users, s \in CascadeSessions,
        via \in {"message", "stream"} :
       ChatTurn(d, u, s, via)
  \/ \E h \in BagToSet(req), o \in CascadeOutcomes : AnalyzeReturn(h, o)
  \/ \E h \in BagToSet(req) :
       \/ \E c \in CascadeChunks : ChatChunk(h, c)
       \/ ChatStreamEnd(h)
       \/ \E e \in StreamErrors : ChatStreamRaise(h, e)

SpecCascade == Init /\ [][NextCascade]_vars

(* The whole service on stored documents: analysis, masking, chat turns and
   the session queries side by side. Who calls does not bear on which fields
   a handler writes: one caller is taken, who owns the documents, with the
   chat turns on /chat/stream; the other inputs as in NextCascade, and one
   answer and one failure of the masking model. *)
ServiceCallers == {"u1"}

ServiceMaskOutcomes ==
  { [raised |-> TRUE, error |-> ProviderError],
    [raised |-> FALSE, response |-> <<"[", "N", "]">>] }

NextService ==
  \/ \E d \in DocIds, u \in ServiceCallers :
       \/ CreateDocument(d, u)
       \/ AnalyzeDocument(d, u)
       \/ GetAnalysis(d, u)
       \/ MaskDocument(d, u)
       \/ GetMaskedContent(d, u)
       \/ GetChatSessions(d, u)
  \/ \E d \in DocIds, u \in ServiceCallers, s \in CascadeSessions :
       \/ GetChatHistory(s, d, u)
       \/ DeleteChatSession(s, d, u)
       \/ ChatTurn(d, u, s, "stream")
  \/ \E h \in BagToSet(req), o \in CascadeOutcomes : AnalyzeReturn(h, o)
  \/ \E h \in BagToSet(req), o \in ServiceMaskOutcomes : MaskReturn(h, o)
  \/ \E h \in BagToSet(req) :
       \/ \E c \in CascadeChunks : ChatChunk(h, c)
       \/ ChatStreamEnd(h)

SpecService == Init /\ [][NextService]_vars

(* Two callers: u1 stores a document, has it analyzed and masked and chats
   about it, while every operation is open to both callers. One valid answer
   of each provider and one session are taken, and the chat provider's stream
   raises, which stores the closing message at once. *)
Owners == {"u1"}

IsolationOutcomes == {[raised |-> FALSE, answer |-> GoodA]}

IsolationMaskOutcomes == {[raised |-> FALSE, response |-> <<"[", "N", "]">>]}

NextIsolation ==
  \/ \E d \in DocIds, u \in Owners : CreateDocument(d, u)
  \/ \E d \in DocIds, u \in Users :
       \/ AnalyzeDocument(d, u)
       \/ GetAnalysis(d, u)
       \/ MaskDocument(d, u)
       \/ GetMaskedContent(d, u)
       \/ GetChatSessions(d, u)
  \/ \E d \in DocIds, u \in Users, s \in CascadeSessions :
       \/ GetChatHistory(s, d, u)
       \/ DeleteChatSession(s, d, u)
       \/ \E via \in {"message", "stream"} : ChatTurn(d, u, s, via)
  \/ \E h \in BagToSet(req), o \in IsolationOutcomes : AnalyzeReturn(h, o)
  \/ \E h \in BagToSet(req), o \in IsolationMaskOutcomes : MaskReturn(h, o)
  \/ \E h \in BagToSet(req), e \in StreamErrors : ChatStreamRaise(h, e)

SpecIsolation == Init /\ [][NextIsolation]_vars

----------------------------------------------------------------------------
(* Properties *)

Absent(d, u) == d \notin DOMAIN docs \/ docs[d].userId # u

(* C1: in every reachable state a document has status COMPLETED if and only
   if its stored analysis is non-null with risk_score in [1,5] and
   confidence_rating in [0,100]. *)
C1_CompletedIffAnalysis ==
  \A d \in DOMAIN docs :
    docs[d].status = COMPLETED
      <=> (IsSome(docs[d].analysis) /\ RangeOK(Get(docs[d].analysis)))

(* C2: a call of analyze_document on a document that is COMPLETED with an
   analysis answers 200 with the stored analysis unchanged (what it returns
   serializes back to the stored JSON), starts no provider call and writes
   nothing: documents, call counts and suspended handlers stay as they are. *)
C2_ShortCircuit ==
  [][\A d \in DocIds, u \in Users :
       ( /\ AnalyzeDocument(d, u)
         /\ ~Absent(d, u)
         /\ docs[d].status = COMPLETED
         /\ IsSome(docs[d].analysis) )
       => /\ docs' = docs
          /\ calls' = calls
          /\ req' = req
          /\ last'.http = 200
          /\ last'.body.status = COMPLETED
          /\ IsSome(last'.body.analysis)
          /\ ModelDumpJson(Get(last'.body.analysis)) = Get(docs[d].analysis)
          /\ last'.body.error_message = None]_vars

(* a second call on a COMPLETED document has answered, after one provider
   call and a tick of the clock since the analysis was stored *)
C2_Witness ==
  /\ last.op = "analyze" /\ last.http = 200
  /\ IsSome(last.body.analysis)
  /\ calls[last.doc] = 1
  /\ Get(last.body.analysis).analyzed_at = 0
  /\ clock = 1

(* C3: when the attempt raises (provider error, malformed or out-of-range
   answer) on a document that is still there, analyze_document answers
   normally with status FAILED, the error's message and no analysis, and
   leaves the document FAILED with that message, a completion stamp and
   analysis still null. *)
C3_FailureLeavesFailed ==
  ( /\ last.op = "analyze_return"
    /\ ~ChainResult(last.input).ok
    /\ last.doc \in DOMAIN docs )
  => /\ last.http = 200
     /\ last.body.status = FAILED
     /\ last.body.error_message = Some(ChainResult(last.input).error)
     /\ last.body.analysis = None
     /\ docs[last.doc].status = FAILED
     /\ docs[last.doc].errorMessage = Some(ChainResult(last.input).error)
     /\ IsSome(docs[last.doc].processingCompletedAt)
     /\ docs[last.doc].analysis = None

(* C4: when the provider's answer passes the range checks, and the document
   is still there, analyze_document ends with the document COMPLETED, the
   completion stamped, the stored analysis equal field for field to the
   provider's record, and the response carrying COMPLETED and that analysis. *)
C4_SuccessCompletes ==
  ( /\ last.op = "analyze_return"
    /\ ~last.input.raised
    /\ DOMAIN last.input.answer = AnalysisFields
    /\ last.input.answer.risk_score \in 1..5
    /\ last.input.answer.confidence_rating \in 0..100
    /\ last.doc \in DOMAIN docs )
  => LET doc == docs[last.doc]
         answer == last.input.answer
     IN /\ doc.status = COMPLETED
        /\ IsSome(doc.processingCompletedAt)
        /\ IsSome(doc.analysis)
        /\ DOMAIN Get(doc.analysis) = StoredAnalysisFields
        /\ \A f \in AnalysisFields : Get(doc.analysis)[f] = answer[f]
        /\ last.http = 200
        /\ last.body.status = COMPLETED
        /\ IsSome(last.body.analysis)
        /\ \A f \in AnalysisFields : Get(last.body.analysis)[f] = answer[f]
        /\ ModelDumpJson(Get(last.body.analysis)) = Get(doc.analysis)

(* an analysis has just completed while another request on the same
   document is still waiting for the provider *)
C4_Witness ==
  /\ last.op = "analyze_return"
  /\ last.http = 200
  /\ IsSome(last.body.analysis)
  /\ \E h \in BagToSet(req) : h.pc = "analyze" /\ h.doc = last.doc

(* C5: analyze_document for a document id that does not exist, or that is
   owned by another user, answers 404, starts no provider call and leaves
   every stored document unchanged. *)
C5_AnalyzeNotFound ==
  [][\A d \in DocIds, u \in Users :
       (AnalyzeDocument(d, u) /\ Absent(d, u))
       => /\ last'.http = 404
          /\ docs' = docs
          /\ calls' = calls
          /\ req' = req]_vars

(* analyze_document has answered 404 for a document that exists and is
   owned by another user *)
C5_Witness ==
  /\ last.op = "analyze" /\ last.http = 404
  /\ last.doc \in DOMAIN docs
  /\ docs[last.doc].userId # last.user

(* C6: every operation that takes a (document id, caller id) pair answers
   404 whenever the document is absent or not owned by the caller. *)
LookupOps ==
  { "analyze", "get_analysis", "mask_document", "get_masked", "get_document",
    "delete_document", "chat_message", "chat_stream" }

C6_NotFoundIs404 ==
  [][\A d \in DocIds, u \in Users :
       (Absent(d, u) /\ last'.op \in LookupOps /\ last'.doc = d /\ last'.user = u)
       => last'.http = 404]_vars

(* C7: in every reachable state, interleaved analyze_document calls on the
   same document included, a document whose status is FAILED has a non-null
   errorMessage. *)
C7_FailedHasMessage ==
  \A d \in DOMAIN docs :
    docs[d].status = FAILED => IsSome(docs[d].errorMessage)

(* a document is FAILED while another analysis of it is still in flight *)
C7_Witness ==
  \E d \in DOMAIN docs :
    /\ docs[d].status = FAILED
    /\ \E h \in BagToSet(req) : h.pc = "analyze" /\ h.doc = d

(* C8: once a document is COMPLETED with an analysis, no later step of any
   operation changes its status to PROCESSING or FAILED. *)
C8_CompletedIsAbsorbing ==
  [][\A d \in DocIds :
       ( /\ d \in DOMAIN docs
         /\ docs[d].status = COMPLETED
         /\ IsSome(docs[d].analysis)
         /\ d \in DOMAIN docs' )
       => docs'[d].status \notin {PROCESSING, FAILED}]_vars

(* the rows of one conversational turn: the user's message carries the
   turn's number as its id, the assistant's message the next one *)
TurnRows(turn, role) ==
  { i \in DOMAIN messages :
      /\ messages[i].role = role
      /\ messages[i].id = (IF role = USER THEN turn ELSE turn + 1) }

(* C9: a conversational turn on a document that is still there has stored
   exactly one user message when the provider is called, and exactly one
   assistant message once the provider call has ended, whether the stream
   completed or raised: two messages per turn. *)
C9_TurnStoresTwo ==
  /\ (last.op \in {"chat_message", "chat_stream"} /\ last.http = 0)
       => /\ Cardinality(TurnRows(last.body.turn, USER)) = 1
          /\ Cardinality(TurnRows(last.body.turn, ASSISTANT)) = 0
  /\ (last.op \in {"chat_done", "chat_raised"} /\ last.doc \in DOMAIN docs)
       => /\ Cardinality(TurnRows(last.body.turn, USER)) = 1
          /\ Cardinality(TurnRows(last.body.turn, ASSISTANT)) = 1

(* the text a caller has received as the reply of a turn *)
ReplyText(via, reply) ==
  IF via = "message" THEN reply.response ELSE Concat(reply.events)

ReplyMessageId(via, reply) ==
  IF via = "message" THEN Some(reply.message_id) ELSE reply.message_id

(* C10: when the provider stream raises during a turn on a document that is
   still there, before or after fragments were forwarded, exactly one
   assistant message is stored, its content is the error-prefixed string, the
   reply the caller gets is that same string with that message's id, and the
   response is a normal one. *)
C10_ErrorReply ==
  (last.op = "chat_raised" /\ last.doc \in DOMAIN docs)
  => LET rows == TurnRows(last.body.turn, ASSISTANT)
         text == ErrorPrefix \o last.input
     IN /\ Cardinality(rows) = 1
        /\ \A i \in rows : messages[i].content = text
        /\ last.http = 200
        /\ ReplyText(last.body.via, last.body.reply) = text
        /\ ReplyMessageId(last.body.via, last.body.reply) = Some(last.body.turn + 1)

(* the provider's fragments that have content *)
NonEmptyChunks(chunks) == SelectSeq(chunks, LAMBDA c : c # "")

(* C11: in a chat turn whose provider stream completes, on a document that is
   still there, what was forwarded is at every moment exactly the provider's
   non-empty fragments so far, in the provider's order (each is forwarded in
   the step that takes it), and at completion one assistant message is stored
   whose content is the concatenation of the forwarded fragments. *)
C11_FragmentsForwarded ==
  /\ \A h \in BagToSet(req) :
       h.pc = "chat" => h.sent = NonEmptyChunks(h.emitted)
  /\ (last.op = "chat_done" /\ last.doc \in DOMAIN docs)
       => LET rows == TurnRows(last.body.turn, ASSISTANT)
              forwarded == NonEmptyChunks(last.input)
          IN /\ Cardinality(rows) = 1
             /\ \A i \in rows : messages[i].content = Concat(forwarded)
             /\ last.body.via = "stream" => last.body.reply.events = forwarded
             /\ last.body.via = "message"
                  => last.body.reply.response = Concat(forwarded)

(* the stored rows of a (session, document, user) triple, and the place of
   one of them among them by creation time *)
TripleRows(s, d, u) ==
  { i \in DOMAIN messages :
      /\ messages[i].sessionId = s
      /\ messages[i].documentId = d
      /\ messages[i].userId = u }

RankByCreation(i, rows) ==
  1 + Cardinality({j \in rows : messages[j].createdAt < messages[i].createdAt})

(* C12: the history get_chat_history returns, and the one a chat turn reads
   with _get_conversation_history, hold exactly the stored messages of the
   (session, document, user) triple, none of another triple, in ascending
   order of creation time; total_messages is their number. *)
C12_HistoryExact ==
  /\ last.op = "chat_history"
       => LET history == last.body.messages
              rows == TripleRows(last.body.session_id, last.doc, last.user)
          IN /\ last.body.total_messages = Cardinality(rows)
             /\ Len(history) = Cardinality(rows)
             /\ \A i \in rows : history[RankByCreation(i, rows)] = messages[i]
             /\ \A k \in 1..(Len(history) - 1) :
                  history[k].createdAt <= history[k + 1].createdAt
  /\ (last.op \in {"chat_message", "chat_stream"} /\ last.http = 0)
       => LET history == last.body.history
              rows == TripleRows(last.body.session_id, last.doc, last.user)
          IN /\ Len(history) = Cardinality(rows)
             /\ \A i \in rows :
                  history[RankByCreation(i, rows)] =
                    [role |-> messages[i].role, content |-> messages[i].content]

(* a history of three messages has been returned while the store holds the
   rows of that session out of their order of creation *)
C12_Witness ==
  /\ last.op = "chat_history"
  /\ last.body.total_messages = 3
  /\ \E i, j \in TripleRows(last.body.session_id, last.doc, last.user) :
       i < j /\ messages[i].createdAt > messages[j].createdAt

(* the lines of a context block under a header, up to the next empty line *)
Section(context, header) ==
  LET start == CHOOSE i \in DOMAIN context : context[i] = header
      end == CHOOSE j \in (start + 1)..Len(context) :
               /\ context[j] = ""
               /\ \A k \in (start + 1)..(j - 1) : context[k] # ""
  IN SubSeq(context, start + 1, end - 1)

HasLine(context, line) == \E i \in DOMAIN context : context[i] = line

(* C13: _get_document_context returns the denial string exactly when the
   document is missing or not owned by the caller; otherwise the not-analyzed
   string exactly when the document has no analysis; otherwise a block with
   the title, type, status and every field of the stored analysis, each list
   with one bullet line per entry and none for an empty list. *)
C13_DocumentContext ==
  last.op = "document_context"
  => LET context == last.body.context
         d == last.doc
     IN /\ (context = <<DenialText>>) <=> Absent(d, last.user)
        /\ ~Absent(d, last.user)
             => LET document == docs[d] IN
                /\ (context = <<NotAnalyzedText(document.title)>>)
                     <=> document.analysis = None
                /\ document.analysis # None
                     => LET analysis == Get(document.analysis) IN
                        /\ HasLine(context, "- Title: " \o document.title)
                        /\ HasLine(context, "- Type: " \o document.type)
                        /\ HasLine(context, "- Status: " \o document.status)
                        /\ HasLine(context, "- Summary: " \o analysis.summary)
                        /\ HasLine(context, "- Risk Score: "
                                     \o ToString(analysis.risk_score) \o ".0/5")
                        /\ HasLine(context, "- Confidence Rating: "
                                     \o ToString(analysis.confidence_rating) \o ".0%")
                        /\ HasLine(context, "- Risk Assessment: "
                                     \o analysis.risk_assessment)
                        /\ HasLine(context, "Analysis Date: " \o analysis.analyzed_at)
                        /\ \A section \in
                              { <<"Hidden Clauses:", analysis.hidden_clauses>>,
                                <<"Loopholes:", analysis.loopholes>>,
                                <<"Red Flags:", analysis.red_flags>>,
                                <<"Key Concerns:", analysis.key_concerns>> } :
                             LET bullets == Section(context, section[1])
                             IN /\ Len(bullets) = Len(section[2])
                                /\ \A i \in DOMAIN bullets :
                                     bullets[i] = "- " \o section[2][i]

(* a context block has been returned for a document whose analysis has a list
   of two entries and an empty list *)
C13_Witness ==
  /\ last.op = "document_context"
  /\ ~Absent(last.doc, last.user)
  /\ docs[last.doc].analysis # None
  /\ Len(Get(docs[last.doc].analysis).red_flags) = 2
  /\ Get(docs[last.doc].analysis).loopholes = <<>>
  /\ Len(Section(last.body.context, "Red Flags:")) = 2

(* C14: the content analyze_document sends to the provider is the stored
   masked_content when the document has a masked-content record whose
   masked_content is not empty at the time of the call, and the raw content
   when it has no record or a record with an empty masked_content. *)
C14_ContentSent ==
  (last.op = "analyze" /\ last.http = 0)
  => LET document == docs[last.doc]
         masked == document.maskedContent
         expected == IF masked # None /\ Get(masked).masked_content # <<>>
                     THEN Get(masked).masked_content
                     ELSE document.content
     IN /\ last.body.content = expected
        /\ \E h \in BagToSet(req) :
             h.pc = "analyze" /\ h.doc = last.doc /\ h.text = expected

(* an analysis has been started on the masked text of a document, which
   differs from its raw content *)
C14_Witness ==
  /\ last.op = "analyze" /\ last.http = 0
  /\ docs[last.doc].maskedContent # None
  /\ last.body.content = Get(docs[last.doc].maskedContent).masked_content
  /\ last.body.content # docs[last.doc].content
  /\ last.body.content # <<>>

(* C15: a text masking answers with original_length the length of the text
   sent and masked_length the length of the text mask_pii returned; a document
   masking answers and stores the same two lengths for the document's content;
   and the lengths of every stored masked-content record agree with its
   original_content and masked_content. *)
C15_MaskLengths ==
  [][ /\ \A h \in BagToSet(req), o \in MaskOutcomes :
           (MaskTextReturn(h, o) /\ ~o.raised)
           => /\ last'.http = 200
              /\ last'.body.masked_content = MaskPii(o.response)
              /\ last'.body.original_length = Len(h.text)
              /\ last'.body.masked_length = Len(MaskPii(o.response))
      /\ \A h \in BagToSet(req), o \in MaskOutcomes :
           (MaskReturn(h, o) /\ last'.http = 200)
           => LET stored == Get(docs'[h.doc].maskedContent)
              IN /\ last'.body.masked_content = MaskPii(o.response)
                 /\ last'.body.original_length = Len(docs[h.doc].content)
                 /\ last'.body.masked_length = Len(MaskPii(o.response))
                 /\ stored.masked_content = MaskPii(o.response)
                 /\ stored.original_content = docs[h.doc].content
                 /\ stored.original_length = Len(docs[h.doc].content)
                 /\ stored.masked_length = Len(MaskPii(o.response))
      /\ \A d \in DOMAIN docs' :
           docs'[d].maskedContent # None
           => LET stored == Get(docs'[d].maskedContent)
              IN /\ stored.original_length = Len(stored.original_content)
                 /\ stored.masked_length = Len(stored.masked_content) ]_vars

(* a text masking has answered with two different lengths while a document
   holds a masked-content record whose two lengths differ *)
C15_Witness ==
  /\ last.op = "mask_text_return" /\ last.http = 200
  /\ last.body.masked_length # last.body.original_length
  /\ last.body.masked_length > 0
  /\ \E d \in DOMAIN docs :
       /\ docs[d].maskedContent # None
       /\ Get(docs[d].maskedContent).masked_length
            # Get(docs[d].maskedContent).original_length

(* C16: nothing is retried. The provider is invoked only by the first part
   of an analyze_document or masking request, once; the return of the provider
   ends the handler, whatever it returned; and a FAILED document leaves FAILED
   only by a new analyze_document request, which marks it PROCESSING and
   invokes the provider. *)
C16_NoRetry ==
  [][ /\ calls' # calls
           => /\ last'.op = "analyze" /\ last'.http = 0
              /\ calls' = [calls EXCEPT ![last'.doc] = @ + 1]
      /\ BagCardinality(req') > BagCardinality(req)
           => /\ last'.op \in {"analyze", "mask_document"} /\ last'.http = 0
              /\ BagCardinality(req') = BagCardinality(req) + 1
      /\ last'.op \in {"analyze_return", "mask_return"}
           => BagCardinality(req') = BagCardinality(req) - 1
      /\ \A d \in DOMAIN docs \cap DOMAIN docs' :
           (docs[d].status = FAILED /\ docs'[d].status # FAILED)
           => /\ last'.op = "analyze" /\ last'.doc = d /\ last'.http = 0
              /\ docs'[d].status = PROCESSING
              /\ calls'[d] = calls[d] + 1 ]_vars

(* C18: a stored analysis is null or a record of all nine fields, and a step
   that writes an analysis sets status COMPLETED and stamps
   processingCompletedAt in that same step. *)
C18_AnalysisWhole ==
  [][ \A d \in DOMAIN docs' :
        /\ \/ docs'[d].analysis = None
           \/ DOMAIN Get(docs'[d].analysis) =
                { "summary", "hidden_clauses", "risk_assessment", "loopholes",
                  "red_flags", "risk_score", "confidence_rating", "key_concerns",
                  "analyzed_at" }
        /\ ( /\ docs'[d].analysis # None
             /\ (d \notin DOMAIN docs \/ docs'[d].analysis # docs[d].analysis) )
           => /\ docs'[d].status = COMPLETED
              /\ docs'[d].processingCompletedAt = Some(clock') ]_vars

(* an analysis has been stored at the second reading of the clock after an
   attempt that had failed *)
C18_Witness ==
  /\ last.op = "analyze_return" /\ last.http = 200
  /\ docs[last.doc].analysis # None
  /\ docs[last.doc].processingCompletedAt = Some(1)
  /\ Get(docs[last.doc].analysis).analyzed_at = IsoFormat(1)
  /\ calls[last.doc] = 2

(* C19: a document is created PENDING with analysis, errorMessage and both
   processing timestamps null, and every change of a stored status is one of
   PENDING -> PROCESSING, FAILED -> PROCESSING, PROCESSING -> COMPLETED,
   PROCESSING -> FAILED; in particular none leads back to PENDING. *)
C19_StatusTransitions ==
  [][ /\ \A d \in DOMAIN docs' \ DOMAIN docs :
           /\ docs'[d].status = PENDING
           /\ docs'[d].analysis = None
           /\ docs'[d].errorMessage = None
           /\ docs'[d].processingStartedAt = None
           /\ docs'[d].processingCompletedAt = None
      /\ \A d \in DOMAIN docs \cap DOMAIN docs' :
           docs'[d].status # docs[d].status
           => <<docs[d].status, docs'[d].status>> \in
                { <<PENDING, PROCESSING>>, <<FAILED, PROCESSING>>,
                  <<PROCESSING, COMPLETED>>, <<PROCESSING, FAILED>> } ]_vars

(* C20: nothing serializes analyze_document: a request on an owned document
   that is not COMPLETED with an analysis marks it PROCESSING and invokes the
   provider whatever the stored status, PROCESSING included, and however many
   calls for the document are in flight. *)
C20_NoMutualExclusion ==
  [][ \A d \in DocIds, u \in Users :
        ( /\ AnalyzeDocument(d, u)
          /\ ~Absent(d, u)
          /\ ~(docs[d].status = COMPLETED /\ docs[d].analysis # None) )
        => /\ calls'[d] = calls[d] + 1
           /\ BagCardinality(req') = BagCardinality(req) + 1
           /\ docs'[d].status = PROCESSING ]_vars

(* the provider has been called twice for a document that has never had an
   analysis, and both calls are in flight *)
C20_Witness ==
  \E d \in DOMAIN docs :
    /\ calls[d] = 2
    /\ docs[d].analysis = None
    /\ docs[d].status = PROCESSING
    /\ \E h \in BagToSet(req) :
         h.pc = "analyze" /\ h.doc = d /\ CopiesIn(h, req) = 2

(* C17: in every reachable state every chat message references an existing
   document and an existing user and every document an existing user; a
   deleted document and a deleted user are gone, with what they own, also
   when an analysis or a chat turn for them is in flight. *)
C17_ReferentialIntegrity ==
  /\ \A i \in DOMAIN messages :
       /\ messages[i].documentId \in DOMAIN docs
       /\ messages[i].userId \in users
  /\ \A d \in DOMAIN docs : docs[d].userId \in users
  /\ (last.op = "delete_document" /\ last.http = 200)
       => last.doc \notin DOMAIN docs
  /\ (last.op = "delete_user" /\ last.http = 200)
       => /\ last.user \notin users
          /\ \A d \in DOMAIN docs : docs[d].userId # last.user

(* a chat turn was in flight when its user was deleted: the user message it
   had stored went with the document, and its closing message, written when
   the provider's stream raised, was not stored *)
C17_Witness ==
  /\ last.op = "chat_raised"
  /\ last.user \notin users
  /\ last.doc \in allocated \ DOMAIN docs
  /\ dbNow >= 2
  /\ messages = <<>>

(* the analyze_document calls for document d that wait for the provider *)
InFlight(r, d) ==
  LET hs == {h \in BagToSet(r) : h.pc = "analyze" /\ h.doc = d}
  IN IF hs = {} THEN 0 ELSE CopiesIn(CHOOSE h \in hs : TRUE, r) * Cardinality(hs)

(* C21: the step of analyze_document that invokes the provider has committed
   status PROCESSING, processingStartedAt and a null errorMessage; and while
   one call is the only one in flight for the document, every step of any
   other request leaves the stored status PROCESSING and errorMessage null. *)
C21_ProcessingBeforeCall ==
  [][ \A d \in DocIds :
        /\ calls'[d] > calls[d]
             => /\ d \in DOMAIN docs'
                /\ docs'[d].status = PROCESSING
                /\ docs'[d].processingStartedAt = Some(clock)
                /\ docs'[d].errorMessage = None
        /\ ( /\ d \in DOMAIN docs /\ d \in DOMAIN docs'
             /\ InFlight(req, d) = 1 /\ InFlight(req', d) = 1
             /\ docs[d].status = PROCESSING /\ docs[d].errorMessage = None )
           => /\ docs'[d].status = PROCESSING
              /\ docs'[d].errorMessage = None ]_vars

(* a second attempt, started after a failed one, is alone in flight while a
   masking request on the same document has completed *)
C21_Witness ==
  \E d \in DOMAIN docs :
    /\ calls[d] = 2
    /\ InFlight(req, d) = 1
    /\ docs[d].status = PROCESSING
    /\ docs[d].errorMessage = None
    /\ last.op = "mask_return" /\ last.http = 200 /\ last.doc = d

(* C26: a stored analysis is write-once: a step that finds a document with a
   non-null analysis leaves that analysis as it is, and an analysis handed to
   a caller is the one stored. *)
C26_AnalysisWriteOnce ==
  [][ /\ \A d \in DOMAIN docs \cap DOMAIN docs' :
           docs[d].analysis # None => docs'[d].analysis = docs[d].analysis
      /\ ( /\ last'.op \in {"analyze", "analyze_return", "get_analysis"}
           /\ last'.http = 200
           /\ last'.body.analysis # None )
         => /\ last'.doc \in DOMAIN docs'
            /\ docs'[last'.doc].analysis # None
            /\ LoadAnalysis(Get(docs'[last'.doc].analysis))
                 = Get(last'.body.analysis) ]_vars

(* C27: a document whose status is COMPLETED has a null errorMessage, and
   get_analysis_by_document_id never answers COMPLETED with an error_message. *)
C27_CompletedNoError ==
  /\ \A d \in DOMAIN docs :
       docs[d].status = COMPLETED => docs[d].errorMessage = None
  /\ (last.op = "get_analysis" /\ last.http = 200 /\ last.body.status = COMPLETED)
       => last.body.error_message = None

(* C28: a document with a non-null processingCompletedAt is COMPLETED or
   FAILED, and a PENDING document has both processing timestamps null. *)
C28_CompletionStamp ==
  \A d \in DOMAIN docs :
    /\ docs[d].processingCompletedAt # None
         => docs[d].status \in {COMPLETED, FAILED}
    /\ docs[d].status = PENDING
         => /\ docs[d].processingStartedAt = None
            /\ docs[d].processingCompletedAt = None

(* the stored rows of a triple other than the row a turn has just written *)
EarlierRows(s, d, u, turn) ==
  {i \in TripleRows(s, d, u) : messages[i].id # turn}

(* C22: the message list a chat turn sends to the provider is one system
   message carrying the document context, then every stored message of the
   turn's (session, document, user) other than the turn's own user message,
   in ascending creation time, then the new user message, once. *)
C22_ProviderMessages ==
  (last.op \in {"chat_message", "chat_stream"} /\ last.http = 0)
    => LET sent == last.body.messages
           rows == EarlierRows(last.body.session_id, last.doc, last.user,
                               last.body.turn)
       IN /\ Len(sent) = Cardinality(rows) + 2
          /\ sent[1].role = SYSTEM
          /\ \E k \in DOMAIN sent[1].content :
               SubSeq(sent[1].content, k, k + Len(DocumentContext(last.doc, last.user)) - 1)
                 = DocumentContext(last.doc, last.user)
          /\ \A k \in 2..Len(sent) : sent[k].role \in {USER, ASSISTANT}
          /\ \A i \in rows :
               sent[1 + RankByCreation(i, rows)] =
                 [role |-> messages[i].role, content |-> messages[i].content]
          /\ sent[Len(sent)] = [role |-> USER, content |-> UserQuestion]

(* a turn starts in a session in which an earlier turn is still receiving
   fragments: the earlier question is sent, the new one once *)
C22_Witness ==
  /\ last.op \in {"chat_message", "chat_stream"} /\ last.http = 0
  /\ Len(last.body.messages) = 3
  /\ \E h \in BagToSet(req) :
       /\ h.pc = "chat" /\ h.turn < last.body.turn /\ h.acc # ""
       /\ h.session = last.body.session_id /\ h.doc = last.doc

(* the five fields analyze_document writes *)
AnalysisState(doc) ==
  <<doc.status, doc.analysis, doc.errorMessage, doc.processingStartedAt,
    doc.processingCompletedAt>>

(* C23: only analyze_document changes status, analysis, errorMessage,
   processingStartedAt and processingCompletedAt. A masking that succeeds
   changes maskedContent of its document and nothing else, one that fails
   changes nothing; get_masked_content, get_analysis_by_document_id, chat
   turns, history and session queries leave every document as it is. *)
C23_FrameOfAnalysis ==
  [][ /\ \A d \in DOMAIN docs \cap DOMAIN docs' :
           AnalysisState(docs'[d]) # AnalysisState(docs[d])
           => last'.op \in {"analyze", "analyze_return"} /\ last'.doc = d
      /\ (last'.op = "mask_return" /\ last'.http = 200)
           => /\ DOMAIN docs' = DOMAIN docs
              /\ docs'[last'.doc].maskedContent # None
              /\ docs' = [docs EXCEPT ![last'.doc].maskedContent =
                                        docs'[last'.doc].maskedContent]
      /\ (last'.op = "mask_return" /\ last'.http # 200) => docs' = docs
      /\ last'.op \in {"mask_document", "get_masked", "get_analysis",
                       "chat_message", "chat_stream", "chat_chunk", "chat_done",
                       "chat_raised", "chat_history", "chat_sessions",
                       "delete_session"}
           => docs' = docs ]_vars

(* a masking has completed on a document whose analysis had failed, while a
   chat turn on it is in flight *)
C23_Witness ==
  /\ last.op = "mask_return" /\ last.http = 200
  /\ docs[last.doc].status = FAILED
  /\ docs[last.doc].errorMessage # None
  /\ docs[last.doc].maskedContent # None
  /\ \E h \in BagToSet(req) : h.pc = "chat" /\ h.doc = last.doc

(* C24: a store failure at the commit that marks PROCESSING or at the commit
   that persists the analysis leaves analyze_document as a generic failure:
   the caller gets the router's 500, not a response carrying an
   error_message, and the document is not turned FAILED by it. *)
C24_StoreFailurePropagates ==
  [][ ( \/ last'.op = "analyze_store_failure"
        \/ ( /\ last'.op = "analyze_return_store_failure"
             /\ ChainResult(last'.input.outcome).ok ) )
      => /\ last'.http = 500
         /\ last'.body = ServerErrorDetail
         /\ docs'[last'.doc].status = docs[last'.doc].status ]_vars

(* text p occurs in t at position k *)
OccursAt(t, p, k) ==
  k >= 1 /\ k + Len(p) - 1 <= Len(t) /\ SubSeq(t, k, k + Len(p) - 1) = p

Blank(c) == c \in {" ", "\n", "\t"}

(* t without its leading and trailing blanks *)
Trimmed(t) ==
  LET inked == {i \in DOMAIN t : ~Blank(t[i])}
  IN IF inked = {} THEN <<>>
     ELSE SubSeq(t, CHOOSE i \in inked : \A j \in inked : i <= j,
                    CHOOSE i \in inked : \A j \in inked : j <= i)

(* what mask_pii keeps of the text: all of it, or what follows the first
   "</think>" when both delimiters occur (trimmed as a whole) *)
Remainder(raw) ==
  IF /\ \E k \in DOMAIN raw : OccursAt(raw, ThinkOpen, k)
     /\ \E k \in DOMAIN raw : OccursAt(raw, ThinkClose, k)
  THEN LET first == CHOOSE k \in DOMAIN raw :
                      /\ OccursAt(raw, ThinkClose, k)
                      /\ \A j \in 1..(k - 1) : ~OccursAt(raw, ThinkClose, j)
       IN Trimmed(SubSeq(raw, first + Len(ThinkClose), Len(raw)))
  ELSE raw

(* the lines of t: what lies between two neighbouring cuts, the cuts being
   the newlines and the two ends *)
Cuts(t) == {0, Len(t) + 1} \cup {i \in DOMAIN t : t[i] = "\n"}

LinesOf(t) ==
  { Trimmed(SubSeq(t, a + 1, b - 1)) :
      <<a, b>> \in { c \in Cuts(t) \X Cuts(t) :
                       c[1] < c[2] /\ \A x \in Cuts(t) : ~(c[1] < x /\ x < c[2]) } }

Discarded(line) ==
  \/ line = <<>>
  \/ \E p \in { <<"H", "e", "r", "e">>, <<"T", "h", "e">>, <<"I", "'", "v", "e">>,
               <<"T", "h", "i", "s">> } : OccursAt(line, p, 1)

(* the i-th line of t, trimmed, counting from 1 *)
LineAt(t, i) ==
  LET a == CHOOSE x \in Cuts(t) : Cardinality({y \in Cuts(t) : y < x}) = i - 1
      b == CHOOSE x \in Cuts(t) : Cardinality({y \in Cuts(t) : y < x}) = i
  IN Trimmed(SubSeq(t, a + 1, b - 1))

Survivors(t) ==
  {i \in 1..(Cardinality(Cuts(t)) - 1) : ~Discarded(LineAt(t, i))}

RECURSIVE LengthBefore(_, _)
LengthBefore(t, i) ==
  LET earlier == {j \in Survivors(t) : j < i}
  IN IF earlier = {} THEN 0
     ELSE LET j == CHOOSE x \in earlier : \A y \in earlier : y <= x
          IN LengthBefore(t, j) + Len(LineAt(t, j)) + 1

(* C25: mask_pii removes everything up to and including the first "</think>"
   when both delimiters occur, trims each line of the remainder, discards the
   empty lines and those starting with "Here", "The", "I've" or "This", and
   joins the surviving lines, in order, with single spaces; when no line
   survives it returns the trimmed remainder. A result built from surviving
   lines has no newline and starts with none of the discarded prefixes. *)
C25_MaskPiiLines ==
  last.op = "mask_pii"
    => LET rest == Remainder(last.input)
           result == last.body.masked_content
           kept == Survivors(rest)
       IN IF kept = {}
          THEN result = Trimmed(rest)
          ELSE /\ \A i \in kept :
                    /\ OccursAt(result, LineAt(rest, i), LengthBefore(rest, i) + 1)
                    /\ LengthBefore(rest, i) > 0
                         => result[LengthBefore(rest, i)] = " "
               /\ \E i \in kept :
                    /\ \A j \in kept : j <= i
                    /\ Len(result) = LengthBefore(rest, i) + Len(LineAt(rest, i))
               /\ \A k \in DOMAIN result : result[k] # "\n"
               /\ ~Discarded(result)
               /\ \A line \in LinesOf(rest) :
                    (line # <<>> /\ Discarded(line)) => line # result

(* a text with a thinking block that holds an explanatory word, followed by
   one line that survives *)
C25_Witness ==
  /\ last.op = "mask_pii"
  /\ \E k \in DOMAIN last.input : OccursAt(last.input, ThinkOpen, k)
  /\ \E k \in DOMAIN last.input : OccursAt(last.input, ThinkClose, k)
  /\ \E k \in DOMAIN last.input : OccursAt(last.input, <<"H", "e", "r", "e">>, k)
  /\ Cardinality(Survivors(Remainder(last.input))) = 1
  /\ last.body.masked_content = <<"a">>

(* C29: with a provider that eventually answers, the analyze_document calls
   in flight for a document eventually have all returned; and whenever no
   call is in flight for it, a document is not PROCESSING. *)
C29_AnalysisReturns ==
  /\ [](\A d \in DOMAIN docs :
          InFlight(req, d) = 0 => docs[d].status # PROCESSING)
  /\ \A d \in DocIds : (InFlight(req, d) > 0) ~> (InFlight(req, d) = 0)

(* the second of two attempts has returned and none is in flight *)
C29_Witness ==
  /\ last.op = "analyze_return" /\ last.http = 200
  /\ calls[last.doc] = 2
  /\ InFlight(req, last.doc) = 0
  /\ docs[last.doc].status \in {COMPLETED, FAILED}

(* the rows that belong to callers other than u *)
DocumentsOfOthers(ds, u) ==
  [x \in {y \in DOMAIN ds : ds[y].userId # u} |-> ds[x]]

MessagesOfOthers(msgs, u) == SelectSeq(msgs, LAMBDA m : m.userId # u)

MessagesOf(msgs, u) == SelectSeq(msgs, LAMBDA m : m.userId = u)

(* C30: an operation invoked with caller id u leaves the documents and chat
   messages of every other user as they are, and answers as it would if
   those rows did not exist: on a document u does not own it answers as for
   no document at all and starts nothing, and a history or a session list is
   computed from u's own messages. *)
C30_Isolation ==
  [][ last'.op \in { "analyze", "get_analysis", "mask_document", "get_masked",
                     "chat_message", "chat_stream", "chat_history",
                     "chat_sessions", "delete_session", "analyze_return",
                     "mask_return", "chat_chunk", "chat_done", "chat_raised" }
      => LET u == last'.user
             d == last'.doc
             op == last'.op
         IN /\ DocumentsOfOthers(docs', u) = DocumentsOfOthers(docs, u)
            /\ MessagesOfOthers(messages', u) = MessagesOfOthers(messages, u)
            /\ op = "chat_history"
                 => last'.body.messages =
                      ChatHistory(MessagesOf(messages, u), last'.body.session_id, d, u)
            /\ op = "chat_sessions"
                 => last'.body.sessions = ChatSessions(MessagesOf(messages, u), d, u)
            /\ op = "delete_session"
                 => last'.body.deleted_messages =
                      Len(MessagesOf(messages, u)) - Len(MessagesOf(messages', u))
            /\ ( /\ (d \notin DOMAIN docs \/ docs[d].userId # u)
                 /\ op \notin {"analyze_return", "mask_return", "chat_chunk",
                               "chat_done", "chat_raised"} )
               => /\ docs' = docs /\ messages' = messages
                  /\ req' = req /\ calls' = calls
                  /\ op \in {"analyze", "get_analysis", "mask_document", "get_masked"}
                       => last'.http = 404 /\ last'.body = NotFoundDetail
                  /\ op = "chat_message"
                       => last'.http = 500 /\ last'.body = ServerErrorDetail
                  /\ op = "chat_stream"
                       => /\ last'.body.events = <<NotFoundChunk>>
                          /\ last'.body.message_id = None
                  /\ op = "chat_history"
                       => last'.body.messages = <<>> /\ last'.body.total_messages = 0
                  /\ op = "chat_sessions"
                       => last'.body.sessions = <<>> /\ last'.body.total_sessions = 0
                  /\ op = "delete_session" => last'.body.deleted_messages = 0 ]_vars

(* a caller asks to delete a session of a document of another user, who has
   messages in that session: none is deleted *)
C30_Witness ==
  /\ last.op = "delete_session" /\ last.http = 200
  /\ last.doc \in DOMAIN docs
  /\ docs[last.doc].userId # last.user
  /\ last.body.deleted_messages = 0
  /\ \E i \in DOMAIN messages :
       /\ messages[i].sessionId = last.body.session_id
       /\ messages[i].documentId = last.doc
       /\ messages[i].role = ASSISTANT
  /\ docs[last.doc].analysis # None

====
